---- MODULE Spec2Model ----
(***************************************************************************)
(* Batch YML key-value replacer for Paradox localisation files.            *)
(*                                                                         *)
(* A text is a sequence of characters, each character a one-token string.  *)
(* Indices of the Python code are 0-based and are kept 0-based here:       *)
(* Slice(s, a, b) is s[a:b], Find is str.find, RFind is str.rfind.         *)
(* The three entry scripts (main.py, Main_capitaliseFirstLetter.py,        *)
(* main_using_get_cantonese_yale.py) share process_line,                   *)
(* process_file_streaming and process_folder verbatim and differ in the    *)
(* replacer built by make_replacer; the variable replacer says which one   *)
(* is in use ("identity" is a caller-supplied replacer that returns its    *)
(* argument).                                                              *)
(***************************************************************************)
EXTENDS Integers, Sequences, FiniteSets, TLC

VARIABLES
    replacer,          \* which replacer process_line is given
    sameDir,           \* output_dir names the same directory as input_dir
    replacer_obj,      \* process_folder: the object replacer_factory() made
    line_replacers,    \* the replacer objects process_line was called with
    inputIsDir,        \* input_dir.is_dir()
    outDirExists,      \* output_dir exists as a directory
    inputDir,          \* entries of input_dir: name -> [isFile, bytes]
    outputDir,         \* files of output_dir: name -> bytes
    pc,                \* position of the run
    files,             \* process_folder: the sorted list of eligible files
    fileIdx,           \* process_folder: index (from 1) of the file in hand
    f_in,              \* process_file_streaming: lines not yet read
    line,              \* the line handed to process_line
    new_value,         \* process_line: what the replacer returned
    new_line,          \* what process_line returned
    factoryCalls,      \* number of replacer_factory() calls
    replacerCalls,     \* arguments of the replacer calls, in order
    transformerCalls,  \* underlying transformer calls: [value, outcome]
    line_number,       \* process_file_streaming: number of the line in hand
    console,           \* messages printed, traceback included (no DEBUG prints)
    exitCode           \* "running", "0" (returned) or "1" (sys.exit(1), traceback)

vars == <<replacer, sameDir, replacer_obj, line_replacers,
          inputIsDir, outDirExists, inputDir, outputDir, pc, files,
          fileIdx, f_in, line, new_value, new_line, factoryCalls,
          replacerCalls, transformerCalls, line_number, console,
          exitCode>>

----------------------------------------------------------------------------
(* Bounds *)

\* longest line handed to process_line on its own
MaxLen == 5

\* most lines in all the files of the input directory together
MaxLines == 2

----------------------------------------------------------------------------
(* Characters and Python string primitives *)

QUOTE == "\""
COLON == ":"
HASH == "#"
LF == "\n"
CR == "\r"
\* one CJK Unified Ideograph (U+6C5D), inside U+4E00..U+9FFF
HAN == "U+6C5D"

\* str.lstrip() / str.strip() with no argument strip whitespace
IsSpace(c) == c \in {" ", "\t", LF, CR}

\* s[a:b] for 0 <= a, b <= len(s)
Slice(s, a, b) == SubSeq(s, a + 1, b)

\* s[a:]
SliceFrom(s, a) == SubSeq(s, a + 1, Len(s))

\* str.find(c, start): lowest index >= start holding c, or -1
Find(s, c, start) ==
    LET hits == {i \in start..(Len(s) - 1) : s[i + 1] = c}
    IN  IF hits = {} THEN -1
        ELSE CHOOSE i \in hits : \A j \in hits : i <= j

\* str.rfind(c): highest index holding c, or -1
RFind(s, c) ==
    LET hits == {i \in 0..(Len(s) - 1) : s[i + 1] = c}
    IN  IF hits = {} THEN -1
        ELSE CHOOSE i \in hits : \A j \in hits : i >= j

\* str.lstrip(): the text from its first non-whitespace character on
LStrip(s) ==
    LET solid == {i \in 1..Len(s) : ~IsSpace(s[i])}
    IN  IF solid = {} THEN <<>>
        ELSE SubSeq(s, CHOOSE i \in solid : \A j \in solid : i <= j, Len(s))

\* str.rstrip(): the text up to its last non-whitespace character
RStrip(s) ==
    LET solid == {i \in 1..Len(s) : ~IsSpace(s[i])}
    IN  IF solid = {} THEN <<>>
        ELSE SubSeq(s, 1, CHOOSE i \in solid : \A j \in solid : i >= j)

\* str.strip()
Strip(s) == RStrip(LStrip(s))

\* str.upper() on one character
Upper(c) == IF c = "a" THEN "A" ELSE c

\* all texts over S of length at most n
TextsUpTo(S, n) == UNION {[1..k -> S] : k \in 0..n}

----------------------------------------------------------------------------
(* process_line *)

stripped(l) == LStrip(l)

colon_index(l) == Find(l, COLON, 0)

\* mutant: the opening quote searched from the start of the line
first_quote_from_start(l) == Find(l, QUOTE, 0)

first_quote(l) == Find(l, QUOTE, colon_index(l))

\* mutant: the closing quote taken to be the next quote after the opening
last_quote_next(l) ==
    IF first_quote(l) = -1 THEN -1
    ELSE IF Find(l, QUOTE, first_quote(l) + 1) = -1 THEN first_quote(l)
    ELSE Find(l, QUOTE, first_quote(l) + 1)

last_quote(l) == RFind(l, QUOTE)

\* the four early returns of process_line
IsPassthrough(l) ==
    \/ stripped(l) = <<>>
    \/ stripped(l)[1] = HASH
    \/ colon_index(l) = -1
    \/ first_quote(l) = -1
    \/ last_quote(l) = first_quote(l)

original_value(l) == Slice(l, first_quote(l) + 1, last_quote(l))

before(l) == Slice(l, 0, first_quote(l) + 1)

\* mutant: the suffix taken after the closing quote
after_past_quote(l) == SliceFrom(l, last_quote(l) + 1)

after(l) == SliceFrom(l, last_quote(l))

\* the line process_line returns when the replacer returned v
process_line(l, v) ==
    IF IsPassthrough(l) THEN l ELSE before(l) \o v \o after(l)

----------------------------------------------------------------------------
(* The replacers built by make_replacer, and the transformers under them *)

\* what one call of an underlying transformer can do
Raised == [raised |-> TRUE, text |-> <<>>]
Returned(t) == [raised |-> FALSE, text |-> t]

\* message.content of a chat completion (None reads as "")
ModelReplies == {<<>>, <<" ">>, <<"b">>, <<"b", " ">>}

\* results of get_cantonese_yale (empty when no word has a Jyutping)
YaleResults == {<<>>, <<"y">>}

capitalise_first_letter(text) ==
    IF text = <<>> THEN text ELSE <<Upper(text[1])>> \o Tail(text)

contains_cjk(text) == \E i \in 1..Len(text) : text[i] = HAN

\* the outcomes of the transformer under replacer r, called with value
TransformerOutcomes(r, value) ==
    CASE r = "openai"     -> {Raised} \cup {Returned(t) : t \in ModelReplies}
      [] r = "yale"       -> {Raised} \cup {Returned(t) : t \in YaleResults}
      [] r = "capitalise" -> {Returned(capitalise_first_letter(value))}
      [] OTHER            -> {Returned(value)}

Call(value, o) == <<[value |-> value, outcome |-> o]>>
Warn(value) == <<[msg |-> "WARN", value |-> value]>>
Error(value) == <<[msg |-> "ERROR", value |-> value]>>

\* A replacer call yields [ret, calls, out, raises]: the value returned,
\* the transformer calls made, the messages printed, and whether an
\* exception left the replacer (every replacer of make_replacer catches
\* Exception, so none does).
Reply(ret, calls, out) ==
    [ret |-> ret, calls |-> calls, out |-> out, raises |-> FALSE]
Propagate(calls) ==
    [ret |-> <<>>, calls |-> calls, out |-> <<>>, raises |-> TRUE]

\* mutant: no test for an empty reply
replacewithrealname1_openai_unchecked(original_text, o) ==
    IF o.raised
    THEN Reply(original_text, Call(original_text, o), Error(original_text))
    ELSE Reply(Strip(o.text), Call(original_text, o), <<>>)

\* mutant: no except clause around the model call
replacewithrealname1_openai_uncaught(original_text, o) ==
    IF o.raised
    THEN Propagate(Call(original_text, o))
    ELSE IF Strip(o.text) = <<>>
         THEN Reply(original_text, Call(original_text, o),
                    Warn(original_text))
         ELSE Reply(Strip(o.text), Call(original_text, o), <<>>)

\* main.py
replacewithrealname1_openai(original_text, o) ==
    IF o.raised
    THEN Reply(original_text, Call(original_text, o), Error(original_text))
    ELSE LET new_text == Strip(o.text)
         IN  IF new_text = <<>>
             THEN Reply(original_text, Call(original_text, o),
                        Warn(original_text))
             ELSE Reply(new_text, Call(original_text, o), <<>>)

\* Main_capitaliseFirstLetter.py
replacewithrealname1_capitalise(original_text, o) ==
    IF original_text = <<>>
    THEN Reply(original_text, <<>>, <<>>)
    ELSE IF o.raised
         THEN Reply(original_text, Call(original_text, o),
                    Error(original_text))
         ELSE Reply(o.text, Call(original_text, o), <<>>)

\* main_using_get_cantonese_yale.py
replacewithrealname1_yale(original_text, o) ==
    IF Strip(original_text) = <<>>
    THEN Reply(original_text, <<>>, <<>>)
    ELSE IF ~contains_cjk(original_text)
    THEN Reply(original_text, <<>>, <<>>)
    ELSE IF o.raised
    THEN Reply(original_text, Call(original_text, o), Error(original_text))
    ELSE IF o.text = <<>>
    THEN Reply(original_text, Call(original_text, o), Warn(original_text))
    ELSE Reply(o.text, Call(original_text, o), <<>>)

\* the replacer given to process_line
Replacer(r, original_text, o) ==
    CASE r = "openai"     -> replacewithrealname1_openai(original_text, o)
      [] r = "capitalise" -> replacewithrealname1_capitalise(original_text, o)
      [] r = "yale"       -> replacewithrealname1_yale(original_text, o)
      [] OTHER            -> Reply(original_text, <<>>, <<>>)

Replacers == {"openai", "capitalise", "yale", "identity"}

\* the replacers the three scripts build with make_replacer
Pipelines == {"openai", "capitalise", "yale"}

\* mutant: the replacer called a second time on a valid line
ProcessLineRun_called_twice(r, l, o) ==
    IF IsPassthrough(l)
    THEN [new_line |-> l, new_value |-> <<>>, replacerCalls |-> <<>>,
          calls |-> <<>>, out |-> <<>>, raises |-> FALSE]
    ELSE LET rep == Replacer(r, original_value(l), o)
         IN  [new_line |-> process_line(l, rep.ret), new_value |-> rep.ret,
              replacerCalls |-> <<original_value(l), original_value(l)>>,
              calls |-> rep.calls \o rep.calls, out |-> rep.out \o rep.out,
              raises |-> rep.raises]

\* One call process_line(l, replacer) where the transformer, if called,
\* does o: the locals new_value and new_line, the replacer and transformer
\* calls made and the messages printed.
ProcessLineRun(r, l, o) ==
    IF IsPassthrough(l)
    THEN [new_line |-> l, new_value |-> <<>>, replacerCalls |-> <<>>,
          calls |-> <<>>, out |-> <<>>, raises |-> FALSE]
    ELSE LET rep == Replacer(r, original_value(l), o)
         IN  [new_line |-> process_line(l, rep.ret), new_value |-> rep.ret,
              replacerCalls |-> <<original_value(l)>>,
              calls |-> rep.calls, out |-> rep.out, raises |-> rep.raises]

\* the transformer outcomes to choose from when process_line is given l
OutcomesFor(r, l) ==
    IF IsPassthrough(l) THEN {Raised}
    ELSE TransformerOutcomes(r, original_value(l))

----------------------------------------------------------------------------
(* process_line on its own: every line over Alphabet of at most MaxLen *)

Alphabet == {"a", COLON, QUOTE, HASH, " ", LF, HAN}

LineInit ==
    /\ replacer \in Replacers
    /\ sameDir = FALSE
    /\ replacer_obj = 0
    /\ line_replacers = {}
    /\ line \in TextsUpTo(Alphabet, MaxLen)
    /\ pc = "line"
    /\ inputIsDir = FALSE
    /\ outDirExists = FALSE
    /\ inputDir = <<>>
    /\ outputDir = <<>>
    /\ files = <<>>
    /\ fileIdx = 0
    /\ f_in = <<>>
    /\ new_value = <<>>
    /\ new_line = <<>>
    /\ factoryCalls = 0
    /\ replacerCalls = <<>>
    /\ transformerCalls = <<>>
    /\ line_number = 0
    /\ console = <<>>
    /\ exitCode = "running"

\* new_line = process_line(line, replacer)
CallProcessLine ==
    /\ pc = "line"
    /\ \E o \in OutcomesFor(replacer, line) :
         \E run \in {ProcessLineRun(replacer, line, o)} :
             /\ new_value' = run.new_value
             /\ new_line' = run.new_line
             /\ replacerCalls' = replacerCalls \o run.replacerCalls
             /\ transformerCalls' = transformerCalls \o run.calls
             /\ console' = console \o run.out
             /\ pc' = IF run.raises THEN "raised" ELSE "returned"
    /\ UNCHANGED <<replacer, sameDir, replacer_obj, line_replacers,
                   inputIsDir, outDirExists, inputDir, outputDir,
                   files, fileIdx, f_in, line, factoryCalls, line_number,
                   exitCode>>

LineNext == CallProcessLine

LineSpec == LineInit /\ [][LineNext]_vars

----------------------------------------------------------------------------
(* Files: text-mode reading, directory entries *)

\* the k-th smallest member of a set of integers
Nth(S, k) == CHOOSE i \in S : Cardinality({j \in S : j <= i}) = k

\* open(..., "r") without newline=: universal newlines, "\r\n" and "\r"
\* are handed to the program as "\n" (the LF of a CRLF is dropped and
\* every CR reads as LF)
Translate(b) ==
    LET kept == {i \in 1..Len(b) : ~(b[i] = LF /\ i > 1 /\ b[i - 1] = CR)}
    IN  [k \in 1..Cardinality(kept) |->
            IF b[Nth(kept, k)] = CR THEN LF ELSE b[Nth(kept, k)]]

\* iterating a text file: lines, each with its "\n" but perhaps the last
SplitLines(t) ==
    LET ends == {i \in 1..Len(t) : t[i] = LF \/ i = Len(t)}
    IN  [k \in 1..Cardinality(ends) |->
            SubSeq(t, IF k = 1 THEN 1 ELSE Nth(ends, k - 1) + 1,
                      Nth(ends, k))]

\* the lines enumerate(f_in) yields for a file holding bytes b: the
\* bytes are translated, then the text is split
ReadLines(b) == CHOOSE ls \in {SplitLines(t) : t \in {Translate(b)}} : TRUE

\* An entry name is <<stem, suffix>>. "d.yml" is a sub-directory.
NameA == <<"a", ".yml">>
NameB == <<"B", ".YAML">>
NameC == <<"c", ".txt">>
NameD == <<"d", ".yml">>

\* str.lower() on the suffixes in use
Lower(suffix) ==
    CASE suffix = ".YAML" -> ".yaml"
      [] suffix = ".YML"  -> ".yml"
      [] OTHER            -> suffix

\* code point of the first character of a stem; the names in use differ
\* in it, so it decides the order of two paths of one directory
Ord(stem) ==
    CASE stem = "B" -> 66
      [] stem = "a" -> 97
      [] stem = "c" -> 99
      [] stem = "d" -> 100

\* mutant: the suffix compared as it is written
Eligible_case_sensitive(dir, name) ==
    dir[name].isFile /\ name[2] \in {".yml", ".yaml"}

\* f.is_file() and f.suffix.lower() in {".yml", ".yaml"}
Eligible(dir, name) ==
    dir[name].isFile /\ Lower(name[2]) \in {".yml", ".yaml"}

\* sorted(...) of a set of names
RECURSIVE Sorted(_)
Sorted(S) ==
    IF S = {} THEN <<>>
    ELSE LET least == CHOOSE n \in S : \A m \in S : Ord(n[1]) <= Ord(m[1])
         IN  <<least>> \o Sorted(S \ {least})

\* the list process_folder builds
ListFiles(dir) == Sorted({n \in DOMAIN dir : Eligible(dir, n)})

\* The file contents the model draws from: a valid line ended by LF, by
\* CRLF or by nothing, a valid line with an empty value and a comment.
ValueLine == <<"k", COLON, QUOTE, "a", HAN, QUOTE>>
EmptyValueLine == <<"k", COLON, QUOTE, QUOTE>>
CommentedLine == <<HASH, "k">>

Chunks ==
    {ValueLine \o <<LF>>, ValueLine \o <<CR, LF>>, ValueLine,
     EmptyValueLine \o <<LF>>, CommentedLine \o <<LF>>}

RECURSIVE Concat(_)
Concat(cs) == IF cs = <<>> THEN <<>> ELSE Head(cs) \o Concat(Tail(cs))

\* the contents made of exactly n chunks
ContentsOf(n) == {Concat(cs) : cs \in [1..n -> Chunks]}

File(b) == [isFile |-> TRUE, bytes |-> b]
SubDirectory == [isFile |-> FALSE, bytes |-> <<>>]

\* every content a.yml or B.YAML can hold
FileContents == UNION {ContentsOf(k) : k \in 0..MaxLines}

\* how MaxLines chunks can be shared between a.yml and B.YAML
Splits ==
    {p \in (0..MaxLines) \X (0..MaxLines) : p[1] + p[2] <= MaxLines}

\* The directories the model draws from: c.txt and the sub-directory d.yml
\* always, a.yml and B.YAML each absent or present, holding at most
\* MaxLines chunks between them.
Directories ==
    LET fixed == (NameC :> File(<<"x", LF>>)) @@ (NameD :> SubDirectory)
    IN  {fixed}
        \cup {fixed @@ (n :> File(b)) :
                n \in {NameA, NameB}, b \in FileContents}
        \cup UNION {
                {fixed @@ (NameA :> File(a)) @@ (NameB :> File(b)) :
                    a \in ContentsOf(p[1]), b \in ContentsOf(p[2])} :
                p \in Splits}

----------------------------------------------------------------------------
(* process_folder and process_file_streaming *)

Say(msg) == <<[msg |-> msg, value |-> <<>>]>>

Init ==
    /\ replacer \in Replacers
    /\ inputIsDir \in BOOLEAN
    /\ outDirExists \in BOOLEAN
    /\ sameDir \in (IF inputIsDir /\ outDirExists THEN BOOLEAN ELSE {FALSE})
    /\ replacer_obj = 0
    /\ line_replacers = {}
    /\ inputDir \in (IF inputIsDir THEN Directories ELSE {<<>>})
    /\ outputDir = <<>>
    /\ pc = "start"
    /\ files = <<>>
    /\ fileIdx = 0
    /\ f_in = <<>>
    /\ line = <<>>
    /\ new_value = <<>>
    /\ new_line = <<>>
    /\ factoryCalls = 0
    /\ replacerCalls = <<>>
    /\ transformerCalls = <<>>
    /\ line_number = 0
    /\ console = <<>>
    /\ exitCode = "running"

\* mutant: the output directory made before input_dir is tested
NotADirectory_after_mkdir ==
    /\ pc = "start"
    /\ ~inputIsDir
    /\ outDirExists' = TRUE
    /\ console' = console \o Say("Error: input folder is not a directory")
    /\ exitCode' = "1"
    /\ pc' = "exited"
    /\ UNCHANGED <<replacer, sameDir, replacer_obj, line_replacers,
                   inputIsDir, inputDir, outputDir, files, fileIdx,
                   f_in, line, new_value, new_line, factoryCalls,
                   replacerCalls, transformerCalls, line_number>>

\* process_folder: input_dir is no directory, sys.exit(1)
NotADirectory ==
    /\ pc = "start"
    /\ ~inputIsDir
    /\ console' = console \o Say("Error: input folder is not a directory")
    /\ exitCode' = "1"
    /\ pc' = "exited"
    /\ UNCHANGED <<replacer, sameDir, replacer_obj, line_replacers,
                   inputIsDir, outDirExists, inputDir, outputDir,
                   files, fileIdx, f_in, line, new_value, new_line,
                   factoryCalls, replacerCalls, transformerCalls,
                   line_number>>

\* mutant: the early return taken before the output directory is made
NoFiles_before_mkdir ==
    /\ pc = "start"
    /\ inputIsDir
    /\ files' = ListFiles(inputDir)
    /\ files' = <<>>
    /\ console' = console \o Say("No .yml or .yaml files found")
    /\ exitCode' = "0"
    /\ pc' = "done"
    /\ UNCHANGED <<replacer, sameDir, replacer_obj, line_replacers,
                   inputIsDir, outDirExists, inputDir, outputDir,
                   fileIdx, f_in, line, new_value, new_line, factoryCalls,
                   replacerCalls, transformerCalls, line_number>>

\* process_folder: mkdir, listing, and the early return on an empty list
NoFiles ==
    /\ pc = "start"
    /\ inputIsDir
    /\ outDirExists' = TRUE
    /\ files' = ListFiles(inputDir)
    /\ files' = <<>>
    /\ console' = console \o Say("No .yml or .yaml files found")
    /\ exitCode' = "0"
    /\ pc' = "done"
    /\ UNCHANGED <<replacer, sameDir, replacer_obj, line_replacers,
                   inputIsDir, inputDir, outputDir, fileIdx, f_in,
                   line, new_value, new_line, factoryCalls, replacerCalls,
                   transformerCalls, line_number>>

\* the "[i/n] name" line printed as the loop takes a file in hand
Taking(name) == <<[msg |-> "file", value |-> name]>>

\* process_folder: mkdir, listing, replacer_factory(), first file in hand
FoundFiles ==
    /\ pc = "start"
    /\ inputIsDir
    /\ outDirExists' = TRUE
    /\ files' = ListFiles(inputDir)
    /\ files' # <<>>
    /\ console' = console \o Say("Found file(s)") \o Taking(files'[1])
    /\ factoryCalls' = factoryCalls + 1
    /\ replacer_obj' = factoryCalls + 1
    /\ fileIdx' = 1
    /\ pc' = "open"
    /\ UNCHANGED <<replacer, sameDir, line_replacers,
                   inputIsDir, inputDir, outputDir, f_in, line,
                   new_value, new_line, replacerCalls, transformerCalls,
                   line_number, exitCode>>

\* an exception leaves process_folder: traceback, exit status 1
Crash(what) ==
    /\ console' = console \o <<[msg |-> "Traceback", value |-> what]>>
    /\ exitCode' = "1"
    /\ pc' = "crashed"

\* process_file_streaming: both files open, the output created or
\* truncated. When output_dir is input_dir the output path is the input
\* path: open("w") empties the file before its first line is read.
OpenFiles ==
    /\ pc = "open"
    /\ outDirExists' = TRUE
    /\ inputDir' = IF sameDir
                   THEN [inputDir EXCEPT ![files[fileIdx]].bytes = <<>>]
                   ELSE inputDir
    /\ f_in' = ReadLines(inputDir'[files[fileIdx]].bytes)
    /\ outputDir' = (files[fileIdx] :> <<>>) @@ outputDir
    /\ line_number' = 0
    /\ pc' = "lines"
    /\ UNCHANGED <<replacer, sameDir, replacer_obj, line_replacers,
                   inputIsDir, files, fileIdx, line,
                   new_value, new_line, factoryCalls, replacerCalls,
                   transformerCalls, console, exitCode>>

\* process_file_streaming: input_path.open raises; nothing catches it
OpenInputFails ==
    /\ pc = "open"
    /\ outDirExists' = TRUE
    /\ Crash(<<"OSError", "open input">>)
    /\ UNCHANGED <<replacer, sameDir, replacer_obj, line_replacers,
                   inputIsDir, inputDir, outputDir, files, fileIdx,
                   f_in, line, new_value, new_line, factoryCalls,
                   replacerCalls, transformerCalls, line_number>>

\* process_file_streaming: output_path.open raises after the input opened
OpenOutputFails ==
    /\ pc = "open"
    /\ outDirExists' = TRUE
    /\ Crash(<<"OSError", "open output">>)
    /\ UNCHANGED <<replacer, sameDir, replacer_obj, line_replacers,
                   inputIsDir, inputDir, outputDir, files, fileIdx,
                   f_in, line, new_value, new_line, factoryCalls,
                   replacerCalls, transformerCalls, line_number>>

\* every line a.yml or B.YAML can yield
FileLines ==
    UNION {{ReadLines(b)[i] : i \in 1..Len(ReadLines(b))} : b \in FileContents}

\* OutcomesFor and ProcessLineRun tabulated over the lines of the files
\* (the same values, computed once)
OutcomesOfLine == [r \in Replacers, l \in FileLines |-> OutcomesFor(r, l)]
RunOfLine ==
    [r \in Replacers, l \in FileLines,
     o \in UNION {OutcomesFor(r2, l2) : r2 \in Replacers, l2 \in FileLines}
        |-> ProcessLineRun(r, l, o)]

\* one turn of the loop: read a line, process_line, write, notice
StreamLine ==
    /\ pc = "lines"
    /\ f_in # <<>>
    /\ line' = Head(f_in)
    /\ f_in' = Tail(f_in)
    /\ line_number' = line_number + 1
    /\ line_replacers' = line_replacers \cup {replacer_obj}
    /\ \E o \in OutcomesOfLine[replacer, Head(f_in)] :
         \E run \in {RunOfLine[replacer, Head(f_in), o]} :
             /\ replacerCalls' = replacerCalls \o run.replacerCalls
             /\ transformerCalls' = transformerCalls \o run.calls
             /\ IF run.raises
                THEN /\ Crash(<<"Exception", "replacer">>)
                     /\ UNCHANGED <<new_value, new_line, outputDir>>
                ELSE /\ new_value' = run.new_value
                     /\ new_line' = run.new_line
                     /\ outputDir' =
                          [outputDir EXCEPT
                              ![files[fileIdx]] = @ \o run.new_line]
                     /\ console' =
                          console \o run.out
                          \o (IF run.new_line # Head(f_in)
                              THEN <<[msg |-> "updated",
                                      value |-> <<line_number + 1>>]>>
                              ELSE <<>>)
                     /\ UNCHANGED <<pc, exitCode>>
    /\ UNCHANGED <<replacer, sameDir, replacer_obj, inputIsDir,
                   outDirExists, inputDir, files, fileIdx, factoryCalls>>

\* mutant: the write fails with the first character of the line on disk
StreamFails_partial_write ==
    /\ pc = "lines"
    /\ f_in # <<>>
    /\ outputDir' = [outputDir EXCEPT
                        ![files[fileIdx]] = @ \o <<Head(f_in)[1]>>]
    /\ Crash(<<"OSError", "read or write">>)
    /\ UNCHANGED <<replacer, sameDir, replacer_obj, line_replacers,
                   inputIsDir, outDirExists, inputDir, files, fileIdx,
                   f_in, line, new_value, new_line, factoryCalls,
                   replacerCalls, transformerCalls, line_number>>

\* reading or writing raises in the loop; the with block closes both
\* files, so what was written stays, and nothing catches the exception
StreamFails ==
    /\ pc = "lines"
    /\ f_in # <<>>
    /\ Crash(<<"OSError", "read or write">>)
    /\ UNCHANGED <<replacer, sameDir, replacer_obj, line_replacers,
                   inputIsDir, outDirExists, inputDir, outputDir,
                   files, fileIdx, f_in, line, new_value, new_line,
                   factoryCalls, replacerCalls, transformerCalls,
                   line_number>>

\* mutant: replacer_factory() called again for every further file
NextFile_new_replacer ==
    /\ pc = "lines"
    /\ f_in = <<>>
    /\ fileIdx < Len(files)
    /\ fileIdx' = fileIdx + 1
    /\ console' = console \o Taking(files[fileIdx + 1])
    /\ factoryCalls' = factoryCalls + 1
    /\ replacer_obj' = factoryCalls + 1
    /\ pc' = "open"
    /\ UNCHANGED <<replacer, sameDir, line_replacers, inputIsDir,
                   outDirExists, inputDir, outputDir, files, f_in, line,
                   new_value, new_line, replacerCalls, transformerCalls,
                   line_number, exitCode>>

\* end of the input: files closed, next file in hand
NextFile ==
    /\ pc = "lines"
    /\ f_in = <<>>
    /\ fileIdx < Len(files)
    /\ fileIdx' = fileIdx + 1
    /\ console' = console \o Taking(files[fileIdx + 1])
    /\ pc' = "open"
    /\ UNCHANGED <<replacer, sameDir, replacer_obj, line_replacers,
                   inputIsDir, outDirExists, inputDir, outputDir,
                   files, f_in, line, new_value, new_line, factoryCalls,
                   replacerCalls, transformerCalls, line_number, exitCode>>

\* end of the last input: "All files processed."
AllProcessed ==
    /\ pc = "lines"
    /\ f_in = <<>>
    /\ fileIdx = Len(files)
    /\ console' = console \o Say("All files processed.")
    /\ exitCode' = "0"
    /\ pc' = "done"
    /\ UNCHANGED <<replacer, sameDir, replacer_obj, line_replacers,
                   inputIsDir, outDirExists, inputDir, outputDir,
                   files, fileIdx, f_in, line, new_value, new_line,
                   factoryCalls, replacerCalls, transformerCalls,
                   line_number>>

Next ==
    \/ NotADirectory
    \/ NoFiles
    \/ FoundFiles
    \/ OpenFiles
    \/ OpenInputFails
    \/ OpenOutputFails
    \/ StreamLine
    \/ StreamFails
    \/ NextFile
    \/ AllProcessed

Spec == Init /\ [][Next]_vars

\* the program keeps running: whatever step is possible is taken
FairSpec == Spec /\ WF_vars(Next)

(* Properties *)
----------------------------------------------------------------------------
(* Properties of process_line and of the replacers, under LineSpec *)

\* index (from 1) of the first ':' of l, or 0
FirstColonAt(l) ==
    IF \A i \in 1..Len(l) : l[i] # COLON THEN 0
    ELSE CHOOSE i \in 1..Len(l) :
            l[i] = COLON /\ \A j \in 1..(i - 1) : l[j] # COLON

\* the number of '"' of l at or after its first ':'
QuotesFromColon(l) ==
    Cardinality({i \in 1..Len(l) : i >= FirstColonAt(l) /\ l[i] = QUOTE})

\* the four kinds of line the specification calls passthrough
BlankLine(l) == \A i \in 1..Len(l) : IsSpace(l[i])
CommentLine(l) ==
    \E i \in 1..Len(l) : l[i] = HASH /\ \A j \in 1..(i - 1) : IsSpace(l[j])
NoColonLine(l) == FirstColonAt(l) = 0
FewQuotesLine(l) == FirstColonAt(l) > 0 /\ QuotesFromColon(l) < 2

PassthroughLine(l) ==
    BlankLine(l) \/ CommentLine(l) \/ NoColonLine(l) \/ FewQuotesLine(l)

\* C2: a line that is blank, a comment, without ':' or with fewer than two
\* '"' at or after the first ':' is returned by process_line unchanged,
\* whatever the replacer and whatever its transformer would have done.
C2_PassthroughUnchanged ==
    (pc = "returned" /\ PassthroughLine(line)) => new_line = line

\* C2 witness: a line with a quote before the colon and exactly one after
\* it went through process_line under the model-calling replacer.
C2_Witness ==
    /\ pc = "returned"
    /\ replacer = "openai"
    /\ FewQuotesLine(line)
    /\ ~BlankLine(line) /\ ~CommentLine(line)
    /\ QuotesFromColon(line) = 1
    /\ \E i \in 1..(FirstColonAt(line) - 1) : line[i] = QUOTE
    /\ new_line = line

\* C3: for a structurally valid line the three parts concatenate to the
\* raw line, rebuilding with the extracted value gives the raw line, and
\* process_line returned the raw line whenever the replacer returned the
\* value unchanged.
C3_RoundTrip ==
    (pc = "returned" /\ ~PassthroughLine(line)) =>
        /\ before(line) \o original_value(line) \o after(line) = line
        /\ process_line(line, original_value(line)) = line
        /\ new_line = before(line) \o new_value \o after(line)
        /\ (new_value = original_value(line) => new_line = line)

\* C3 witness: a valid line with a non-empty value and text after the
\* closing quote was rebuilt with its value unchanged.
C3_Witness ==
    /\ pc = "returned"
    /\ ~PassthroughLine(line)
    /\ original_value(line) # <<>>
    /\ Len(after(line)) > 1
    /\ new_value = original_value(line)
    /\ new_line = line

\* what the replacer makes of the transformer's output before testing it
Normalised(r, text) == IF r = "openai" THEN Strip(text) ELSE text

Diagnostics(out) ==
    {i \in 1..Len(out) : out[i].msg \in {"WARN", "ERROR"}}

\* C5 as stated: for a non-empty value, a transformer that raises or
\* returns empty output leaves the original value and a diagnostic, and
\* any non-empty output is what the replacer returns.
C5_OutputReturnedAsIs ==
    (/\ pc = "returned"
     /\ replacer \in Pipelines
     /\ ~PassthroughLine(line)
     /\ original_value(line) # <<>>
     /\ transformerCalls # <<>>) =>
        LET o == transformerCalls[1].outcome
        IN  IF o.raised \/ o.text = <<>>
            THEN new_value = original_value(line) /\ Diagnostics(console) # {}
            ELSE new_value = o.text

\* C5 amended: for a non-empty value on which the transformer is called,
\* if it raises or its output is empty (in main.py: empty once stripped
\* of surrounding whitespace) the replacer returns the original value and
\* prints exactly one diagnostic; otherwise it returns the output (in
\* main.py: the output stripped of surrounding whitespace) and prints none.
C5_OutputOrOriginal ==
    (/\ pc = "returned"
     /\ replacer \in Pipelines
     /\ ~PassthroughLine(line)
     /\ original_value(line) # <<>>
     /\ transformerCalls # <<>>) =>
        LET o == transformerCalls[1].outcome
        IN  /\ Len(transformerCalls) = 1
            /\ transformerCalls[1].value = original_value(line)
            /\ IF o.raised \/ Normalised(replacer, o.text) = <<>>
               THEN /\ new_value = original_value(line)
                    /\ Cardinality(Diagnostics(console)) = 1
               ELSE /\ new_value = Normalised(replacer, o.text)
                    /\ Diagnostics(console) = {}

\* C5 witness: the model returned only whitespace for a non-empty value
\* and the original value was kept, with a warning.
C5_Witness ==
    /\ pc = "returned"
    /\ replacer = "openai"
    /\ ~PassthroughLine(line)
    /\ original_value(line) # <<>>
    /\ transformerCalls # <<>>
    /\ ~transformerCalls[1].outcome.raised
    /\ transformerCalls[1].outcome.text = <<" ">>
    /\ new_value = original_value(line)
    /\ Cardinality(Diagnostics(console)) = 1

\* C6 as stated: for an empty or whitespace-only value no pipeline calls
\* its transformer and the value is returned as it was.
C6_EmptyValueNotTransformed ==
    (/\ pc = "returned"
     /\ replacer \in Pipelines
     /\ ~PassthroughLine(line)
     /\ Strip(original_value(line)) = <<>>) =>
        /\ transformerCalls = <<>>
        /\ new_value = original_value(line)

----------------------------------------------------------------------------
(* Properties of a batch run, under Spec and FairSpec *)

\* the lines of every listed file, in the order the run reads them
RECURSIVE LinesOfFiles(_)
LinesOfFiles(fs) ==
    IF fs = <<>> THEN <<>>
    ELSE ReadLines(inputDir[Head(fs)].bytes) \o LinesOfFiles(Tail(fs))

OutputsEqualInputs ==
    \A i \in 1..Len(files) :
        /\ files[i] \in DOMAIN outputDir
        /\ outputDir[files[i]] = inputDir[files[i]].bytes

\* C1 as stated: with the identity replacer every output file of a
\* finished run is byte-identical to its input file, line terminators
\* included.
C1_IdentityByteIdentical ==
    (pc = "done" /\ replacer = "identity") => OutputsEqualInputs

AllCallsRaised ==
    \A i \in 1..Len(transformerCalls) : transformerCalls[i].outcome.raised

NonEmptyValueLines ==
    LET ls == LinesOfFiles(files)
    IN  {i \in 1..Len(ls) :
            ~PassthroughLine(ls[i]) /\ original_value(ls[i]) # <<>>}

FailureDiagnostics == {i \in 1..Len(console) : console[i].msg = "ERROR"}

\* C4 as stated: when every transformer call fails, every output file of
\* a finished run is byte-identical to its input and there is exactly one
\* failure diagnostic per valid line with a non-empty value, none else.
C4_AlwaysFailingTransformer ==
    (pc = "done" /\ replacer \in Pipelines /\ AllCallsRaised) =>
        /\ OutputsEqualInputs
        /\ Cardinality(FailureDiagnostics) = Cardinality(NonEmptyValueLines)

\* a transformer call that failed: it raised or returned nothing
Failed(c) == c.outcome.raised \/ c.outcome.text = <<>>

SomeCallFailed ==
    \E i \in 1..Len(transformerCalls) : Failed(transformerCalls[i])

\* the run was ended by an I/O error, not by the replacer
IOCrashed ==
    /\ pc = "crashed"
    /\ console[Len(console)].msg = "Traceback"
    /\ console[Len(console)].value[1] = "OSError"

\* every listed file was written, line for line
AllFilesWritten ==
    \A i \in 1..Len(files) :
        /\ files[i] \in DOMAIN outputDir
        /\ Len(SplitLines(outputDir[files[i]]))
             = Len(ReadLines(inputDir[files[i]].bytes))

\* C7: a transformer failure never aborts the file or the batch. The step
\* in which the transformer fails writes the line as it was read and
\* leaves the loop running; a finished run has written every line of
\* every file; and after a failure the run always comes to its end: done,
\* unless an I/O error (never the transformer) stops it.
C7_FailureNeverAborts ==
    /\ [][(/\ pc = "lines"
           /\ Len(transformerCalls') = Len(transformerCalls) + 1
           /\ Failed(transformerCalls'[Len(transformerCalls')]))
          => /\ pc' = "lines"
             /\ exitCode' = "running"
             /\ f_in' = Tail(f_in)
             /\ outputDir'[files[fileIdx]]
                  = outputDir[files[fileIdx]] \o Head(f_in)]_vars
    /\ [](pc = "crashed" => IOCrashed)
    /\ []((pc = "done" /\ files # <<>>) => AllFilesWritten)
    /\ (SomeCallFailed ~> (pc = "done" \/ IOCrashed))

\* C7 witness: the transformer failed on the first line of the first of
\* two files, and the run finished with both files written.
C7_Witness ==
    /\ pc = "done"
    /\ Len(files) = 2
    /\ Len(ReadLines(inputDir[files[1]].bytes)) = 2
    /\ ~PassthroughLine(ReadLines(inputDir[files[1]].bytes)[1])
    /\ transformerCalls # <<>>
    /\ transformerCalls[1].outcome.raised
    /\ transformerCalls[1].value = original_value(ReadLines(inputDir[files[1]].bytes)[1])
    /\ AllFilesWritten

\* C8 as stated: a file that cannot be opened or written is fatal for
\* that file only: when the run is over, process_folder has gone through
\* every file of its sorted list.
C8_IOFailureOnlyThatFile ==
    (exitCode # "running" /\ files # <<>>) => fileIdx = Len(files)

\* C9: when input_dir is no directory the only step of the run is the
\* error exit: the message and exit status 1, the output directory not
\* created, no replacer made or called, no file opened or written.
C9_NotADirectoryStopsFirst ==
    [][~inputIsDir =>
        /\ pc' = "exited"
        /\ exitCode' = "1"
        /\ console' = Say("Error: input folder is not a directory")
        /\ outDirExists' = outDirExists
        /\ outputDir' = outputDir
        /\ factoryCalls' = 0
        /\ replacerCalls' = <<>>
        /\ transformerCalls' = <<>>
        /\ f_in' = <<>>
        /\ files' = <<>>]_vars

\* C9 witness: the run has exited on a missing input directory and the
\* output directory is still absent.
C9_Witness ==
    /\ ~inputIsDir
    /\ pc = "exited"
    /\ exitCode = "1"
    /\ ~outDirExists
    /\ factoryCalls = 0

\* the entries the specification calls eligible: regular files whose
\* extension is .yml or .yaml in any letter case
EligibleEntries(dir) ==
    {n \in DOMAIN dir :
        dir[n].isFile /\ n[2] \in {".yml", ".yaml", ".YML", ".YAML"}}

\* C10: over an input directory without eligible files the run returns
\* normally after reporting that no file was found, with no output file
\* written, no replacer made, and the output directory in place.
C10_NoEligibleFiles ==
    (inputIsDir /\ EligibleEntries(inputDir) = {} /\ pc # "start") =>
        /\ pc = "done"
        /\ exitCode = "0"
        /\ console = Say("No .yml or .yaml files found")
        /\ outDirExists
        /\ outputDir = <<>>
        /\ factoryCalls = 0
        /\ replacerCalls = <<>>

\* C10 witness: a run over a directory holding only c.txt and the
\* sub-directory d.yml has returned.
C10_Witness ==
    /\ inputIsDir
    /\ DOMAIN inputDir = {NameC, NameD}
    /\ pc = "done"
    /\ exitCode = "0"
    /\ outDirExists
    /\ outputDir = <<>>

\* C11 as stated: a run that got past the input-directory test and came
\* to its end called the factory exactly once, and process_line was given
\* no other replacer object than the one it made.
C11_ExactlyOneTransformer ==
    (inputIsDir /\ pc = "done") =>
        /\ factoryCalls = 1
        /\ line_replacers \subseteq {replacer_obj}

\* C11 amended: once the listing is made, a run that found files has
\* called the factory exactly once and every line of every file went to
\* process_line with the object that call returned; a run that found no
\* file has not called the factory.
C11_OneTransformerIfFiles ==
    (inputIsDir /\ pc # "start") =>
        IF files = <<>>
        THEN factoryCalls = 0 /\ replacer_obj = 0 /\ line_replacers = {}
        ELSE /\ factoryCalls = 1
             /\ replacer_obj = 1
             /\ line_replacers \subseteq {replacer_obj}
             /\ (replacerCalls # <<>> => line_replacers = {replacer_obj})

\* C11 witness: a finished run over two files, each with a line, whose
\* lines all went to the one replacer object.
C11_Witness ==
    /\ pc = "done"
    /\ Len(files) = 2
    /\ \A i \in 1..2 : outputDir[files[i]] # <<>>
    /\ factoryCalls = 1
    /\ line_replacers = {1}

\* the files the run has taken in hand so far, in the order it took them
Taken ==
    LET IsTaking(e) == e.msg = "file"
        es == SelectSeq(console, IsTaking)
    IN  [i \in 1..Len(es) |-> es[i].value]

\* the output of name holds one line for every line of the input
FullyWritten(name) ==
    /\ name \in DOMAIN outputDir
    /\ Len(SplitLines(outputDir[name]))
         = Len(ReadLines(inputDir[name].bytes))

\* The files taken in hand are regular .yml/.yaml entries of input_dir
\* itself, taken in ascending name order (so each once) without skipping
\* any; when a file is taken every earlier one is fully written; a run
\* that has ended has taken every such entry, and one that returned has
\* fully written them all.
SortedEligibleSequence(ended) ==
    (inputIsDir /\ pc # "start") =>
        /\ \A i \in 1..Len(Taken) : Taken[i] \in EligibleEntries(inputDir)
        /\ \A i, j \in 1..Len(Taken) :
              i < j => Ord(Taken[i][1]) < Ord(Taken[j][1])
        /\ \A n \in EligibleEntries(inputDir) :
              (\A i \in 1..Len(Taken) : Taken[i] # n) =>
                  \A i \in 1..Len(Taken) : Ord(Taken[i][1]) < Ord(n[1])
        /\ \A i \in 1..(Len(Taken) - 1) : FullyWritten(Taken[i])
        /\ (ended =>
              {Taken[i] : i \in 1..Len(Taken)} = EligibleEntries(inputDir))
        /\ (pc = "done" => \A i \in 1..Len(Taken) : FullyWritten(Taken[i]))

\* C12 as stated: the sequence of files process_folder processes is
\* exactly the regular .yml/.yaml entries of input_dir, in ascending name
\* order, each once and each fully written before the next is opened;
\* so when the run is over every such entry was processed.
C12_SortedEligibleSequence == SortedEligibleSequence(exitCode # "running")

\* o is l with at most its value replaced: l itself for a passthrough
\* line, else the text before the value, some value, the text after it
RebuildOf(o, l) ==
    IF PassthroughLine(l) THEN o = l
    ELSE /\ Len(o) >= Len(before(l)) + Len(after(l))
         /\ SubSeq(o, 1, Len(before(l))) = before(l)
         /\ SubSeq(o, Len(o) - Len(after(l)) + 1, Len(o)) = after(l)

\* out is a line-for-line rebuild of the first lines of the file in
DerivedPrefix(out, in) ==
    \A ins \in {ReadLines(in)} : \A outs \in {SplitLines(out)} :
        /\ Len(outs) <= Len(ins)
        /\ \A k \in 1..Len(outs) : RebuildOf(outs[k], ins[k])

\* out is a line-for-line rebuild of the whole file in
DerivedFrom(out, in) ==
    /\ DerivedPrefix(out, in)
    /\ Len(SplitLines(out)) = Len(ReadLines(in))

\* C13: when a run has returned, the files it created or wrote are
\* exactly one per regular .yml/.yaml entry of input_dir, under that
\* entry's own name, each a line-for-line rebuild of that entry alone.
C13_OutputMirrorsInput ==
    (inputIsDir /\ pc = "done") =>
        /\ outDirExists
        /\ DOMAIN outputDir = EligibleEntries(inputDir)
        /\ \A n \in DOMAIN outputDir :
              DerivedFrom(outputDir[n], inputDir[n].bytes)

\* C13 witness: the model-calling run returned with a.yml and B.YAML
\* written to a separate output directory, a.yml with a changed value,
\* and nothing written for c.txt or the sub-directory d.yml.
C13_Witness ==
    /\ pc = "done"
    /\ ~sameDir
    /\ replacer = "openai"
    /\ DOMAIN inputDir = {NameA, NameB, NameC, NameD}
    /\ DOMAIN outputDir = {NameA, NameB}
    /\ inputDir[NameB].bytes # <<>>
    /\ outputDir[NameA] # <<>>
    /\ Len(outputDir[NameA]) < Len(inputDir[NameA].bytes)
    /\ \E i \in 1..Len(transformerCalls) :
          transformerCalls[i].outcome = Returned(<<"b">>)

\* C14: at every moment, also after an error has ended the run, every
\* file of output_dir holds the rebuilt lines of the first k lines of its
\* input, whole and in input order; for the file being processed k is the
\* number of lines read so far.
C14_WholeLinesInOrder ==
    \A n \in DOMAIN outputDir :
        /\ DerivedPrefix(outputDir[n], inputDir[n].bytes)
        /\ (pc \in {"lines", "crashed"} /\ n = files[fileIdx]) =>
              \A ins \in {ReadLines(inputDir[n].bytes)} :
                  /\ Len(SplitLines(outputDir[n])) = line_number
                  /\ line_number + Len(f_in) = Len(ins)
                  /\ \A k \in 1..Len(f_in) : f_in[k] = ins[line_number + k]

\* C14 witness: an I/O error ended the run after the first of the two
\* lines of a file was written with a changed value.
C14_Witness ==
    /\ pc = "crashed"
    /\ console[Len(console)].value = <<"OSError", "read or write">>
    /\ line_number = 1
    /\ Len(f_in) = 1
    /\ new_line # line
    /\ outputDir[files[fileIdx]] = new_line

\* index (from 1) of the first '"' strictly after the first ':' of l
OpenAt(l) ==
    CHOOSE i \in 1..Len(l) :
        /\ i > FirstColonAt(l) /\ l[i] = QUOTE
        /\ \A j \in (FirstColonAt(l) + 1)..(i - 1) : l[j] # QUOTE

\* index (from 1) of the last '"' of l
CloseAt(l) ==
    CHOOSE i \in 1..Len(l) :
        l[i] = QUOTE /\ \A j \in (i + 1)..Len(l) : l[j] # QUOTE

\* C15: for a structurally valid line the opening quote is the first '"'
\* after the first ':' and the closing quote the last '"' of the line;
\* the value, which is what the replacer is given, is the text strictly
\* between the two, and the line returned keeps the text up to the
\* opening quote and from the closing quote on.
C15_QuotesChosen ==
    (pc = "returned" /\ ~PassthroughLine(line)) =>
        /\ first_quote(line) + 1 = OpenAt(line)
        /\ last_quote(line) + 1 = CloseAt(line)
        /\ OpenAt(line) > FirstColonAt(line)
        /\ original_value(line)
             = SubSeq(line, OpenAt(line) + 1, CloseAt(line) - 1)
        /\ replacerCalls = <<SubSeq(line, OpenAt(line) + 1, CloseAt(line) - 1)>>
        /\ new_line = SubSeq(line, 1, OpenAt(line)) \o new_value
                        \o SubSeq(line, CloseAt(line), Len(line))

\* C15 witness: a line with a quote before the colon and three after it;
\* the value is the middle one of the three.
C15_Witness ==
    /\ pc = "returned"
    /\ ~PassthroughLine(line)
    /\ \E i \in 1..(FirstColonAt(line) - 1) : line[i] = QUOTE
    /\ QuotesFromColon(line) = 3
    /\ replacerCalls = <<<<QUOTE>>>>

\* C16 as stated: no step of a run changes an entry of input_dir, whatever
\* input_dir and output_dir are: every input file holds after the run
\* what it held before it.
C16_InputFilesUntouched == [][inputDir' = inputDir]_vars

\* the replacer calls the claim allows for line l: none for a passthrough
\* line, one with the text between the quotes for a valid line
CallsFor(l) ==
    IF PassthroughLine(l) THEN <<>>
    ELSE <<SubSeq(l, OpenAt(l) + 1, CloseAt(l) - 1)>>

RECURSIVE CallsForAll(_)
CallsForAll(ls) ==
    IF ls = <<>> THEN <<>> ELSE CallsFor(Head(ls)) \o CallsForAll(Tail(ls))

\* process_line on its own (LineSpec): the calls made for the one line
ProcessLineCallsOnce == pc = "returned" => replacerCalls = CallsFor(line)

\* C17: every turn of the loop adds exactly the replacer calls of its
\* line: one, with the extracted value, for a valid line and none for a
\* passthrough line; so when the run returns the replacer calls are, in
\* order, the values of the valid lines of the files, one call per line.
C17_OneCallPerValidLine ==
    /\ [][(pc = "lines" /\ line_number' = line_number + 1) =>
            replacerCalls' = replacerCalls \o CallsFor(Head(f_in))]_vars
    /\ [][(line_number' = line_number \/ line_number' = 0) =>
            replacerCalls' = replacerCalls]_vars
    /\ [](pc = "done" => replacerCalls = CallsForAll(LinesOfFiles(files)))

\* C17 witness: a finished run over one file of a comment line and a
\* valid line made one replacer call, with the valid line's value.
C17_Witness ==
    /\ pc = "done"
    /\ Len(files) = 1
    /\ ReadLines(inputDir[files[1]].bytes)
         = <<CommentedLine \o <<LF>>, ValueLine \o <<LF>>>>
    /\ replacerCalls = <<<<"a", HAN>>>>

====
